---- MODULE Spec2Model ----
(***************************************************************************)
(* Middleware chaining of fun-with-middleware: the handler units of        *)
(* index.js, the wirings of the application that index.js and the README   *)
(* walk through, and the dispatch of requests down the application's       *)
(* stack of layers.                                                        *)
(***************************************************************************)
EXTENDS Naturals, Sequences, FiniteSets, TLC

VARIABLES app, requests, console

vars == <<app, requests, console>>

\* The number of requests the server receives in one run.
MaxRequests == 2

Methods == {"GET", "POST"}
Paths == {"/", "/hi", "/bye", "/nope"}

----------------------------------------------------------------------------
(* Handler units.  A unit is what its body does when invoked: the lines it *)
(* writes with console.log, the bodies it passes to res.send, the number   *)
(* of times it calls next(), and whether it is the access logger (which    *)
(* writes its line when the response finishes).                            *)

Unit(name, log, send, next, access, format) ==
  [name |-> name, log |-> log, send |-> send, next |-> next,
   access |-> access, format |-> format]

\* A middleware that answers and still passes control on.
myMiddlewareSendsAndContinues ==
  Unit("myMiddleware", <<"Hello, from my middleware">>, <<"Hello">>, 1, FALSE, "")

\* index.js: (req, res) => { console.log("Hello, from my middleware") }
myMiddleware ==
  Unit("myMiddleware", <<"Hello, from my middleware">>, <<>>, 0, FALSE, "")

\* A factory that ignores its argument.
myMiddlewareFactoryIgnoresName(args) ==
  Unit("greeter", <<"Hello, " \o "World">>, <<>>, 1, FALSE, "")

\* README, Customizable middleware:
\*   (name = "World") => (req, res, next) => { console.log(`Hello, ${name}`); next(); }
myMiddlewareFactory(args) ==
  LET name == IF Len(args) = 0 THEN "World" ELSE args[1]
  IN  Unit("greeter", <<"Hello, " \o name>>, <<>>, 1, FALSE, "")

\* morgan() / morgan("dev"): the access logger, configured by its format.
morgan(args) ==
  Unit("morgan", <<>>, <<>>, 1, TRUE, IF Len(args) = 0 THEN "default" ELSE args[1])

\* A /hi handler that returns without answering.
hiHandlerNoResponse == Unit("hi", <<>>, <<>>, 0, FALSE, "")

\* A /hi handler that answers with the other route's body.
hiHandlerWrongBody == Unit("hi", <<>>, <<"Bye">>, 0, FALSE, "")

\* index.js: app.get("/hi", (req, res) => { res.send("Hi") })
hiHandler == Unit("hi", <<>>, <<"Hi">>, 0, FALSE, "")

\* index.js: app.get("/bye", (req, res) => { res.send("Bye") })
byeHandler == Unit("bye", <<>>, <<"Bye">>, 0, FALSE, "")

----------------------------------------------------------------------------
(* Layers and wirings.                                                     *)

\* app.use(unit): a layer that matches every request.
Use(unit) == [kind |-> "use", method |-> "*", path |-> "*", handlers |-> <<unit>>]

\* app.get(path, ...handlers): a layer bound to GET path.
Get(path, handlers) ==
  [kind |-> "route", method |-> "GET", path |-> path, handlers |-> handlers]

\* The routes registered on a catch-all path.
indexRoutesCatchAll ==
  << Get("/hi", <<hiHandler>>), Get("/bye", <<byeHandler>>),
     [kind |-> "use", method |-> "*", path |-> "*", handlers |-> <<byeHandler>>] >>

\* index.js as wired: the two routes, nothing global.
indexRoutes == << Get("/hi", <<hiHandler>>), Get("/bye", <<byeHandler>>) >>

\* The logger registered after the routes instead of before them.
appMorganAfterRoutes(args) == indexRoutes \o << Use(morgan(args)) >>

\* README, Morgan: app.use(morgan()) or app.use(morgan("dev")) before the routes.
appMorgan(args) == << Use(morgan(args)) >> \o indexRoutes

\* README, Global middleware: app.use(morgan("dev")); app.use(myMiddleware).
appGlobal == << Use(morgan(<<"dev">>)), Use(myMiddleware) >> \o indexRoutes

\* The middleware bound with app.use in place of the route.
appPerRouteBoundGlobally ==
  << Use(morgan(<<"dev">>)), Use(myMiddleware),
     Get("/hi", <<hiHandler>>), Get("/bye", <<byeHandler>>) >>

\* README, Per-route middleware: app.get("/bye", myMiddleware, ...).
appPerRoute ==
  << Use(morgan(<<"dev">>)),
     Get("/hi", <<hiHandler>>),
     Get("/bye", <<myMiddleware, byeHandler>>) >>

\* README, Customizable middleware: app.get("/bye", myMiddleware(), ...).
appFactory ==
  << Use(morgan(<<"dev">>)),
     Get("/hi", <<hiHandler>>),
     Get("/bye", <<myMiddlewareFactory(<<>>), byeHandler>>) >>

\* README: app.get("/hi", myMiddleware("Universe"), ...), /bye as before.
appFactoryHi(name) ==
  << Use(morgan(<<"dev">>)),
     Get("/hi", <<myMiddlewareFactory(<<name>>), hiHandler>>),
     Get("/bye", <<myMiddlewareFactory(<<>>), byeHandler>>) >>

\* The names passed to the factory.
Names == {"Universe", "Mars"}

Wirings ==
  {indexRoutes, appMorgan(<<>>), appMorgan(<<"dev">>), appGlobal, appPerRoute,
   appFactory} \cup {appFactoryHi(n) : n \in Names}

----------------------------------------------------------------------------
(* Dispatch.                                                               *)

Matches(layer, method, path) ==
  \/ layer.kind = "use"
  \/ layer.method = method /\ layer.path = path

\* The first layer at or after index from that matches; Len(stack) + 1 if none.
RECURSIVE NextLayer(_, _, _, _)
NextLayer(stack, from, method, path) ==
  IF from > Len(stack) THEN Len(stack) + 1
  ELSE IF Matches(stack[from], method, path) THEN from
  ELSE NextLayer(stack, from + 1, method, path)

StatusText(status) ==
  CASE status = 200 -> "200"
    [] status = 404 -> "404"
    [] status = 500 -> "500"
    [] OTHER -> "-"

\* The line the access logger writes for a finished request.
AccessLine(format, method, path, status) ==
  IF format = "dev"
  THEN method \o " " \o path \o " " \o StatusText(status)
  ELSE "\"" \o method \o " " \o path \o " HTTP/1.1\" " \o StatusText(status)

\* The lines the on-finished hooks of a request write.
RECURSIVE AccessLines(_, _, _, _, _)
AccessLines(i, hooks, method, path, status) ==
  IF hooks = <<>> THEN <<>>
  ELSE << [req |-> i, by |-> "morgan",
           text |-> AccessLine(Head(hooks), method, path, status)] >>
       \o AccessLines(i, Tail(hooks), method, path, status)

RECURSIVE UnitLines(_, _, _)
UnitLines(i, name, log) ==
  IF log = <<>> THEN <<>>
  ELSE << [req |-> i, by |-> name, text |-> Head(log)] >>
       \o UnitLines(i, name, Tail(log))

NewRequest(method, path) ==
  [method |-> method, path |-> path,
   layer |-> NextLayer(app, 1, method, path), handler |-> 1,
   active |-> TRUE, status |-> 0, body |-> "", sends |-> 0,
   hooks |-> <<>>, closed |-> FALSE, ran |-> <<>>,
   lastNext |-> 0, lastSent |-> FALSE, thrown |-> FALSE]

\* The server accepts a request.
Receive(method, path) ==
  /\ Len(requests) < MaxRequests
  /\ requests' = Append(requests, NewRequest(method, path))
  /\ UNCHANGED <<app, console>>

\* The unit under the cursor of request i runs to its return.
Invoke(i) ==
  LET r == requests[i] IN
  /\ r.active
  /\ r.layer <= Len(app)
  /\ LET layer == app[r.layer]
         unit == layer.handlers[r.handler]
         sent == Len(unit.send) > 0
         first == sent /\ r.sends = 0
         hooks == IF unit.access THEN Append(r.hooks, unit.format) ELSE r.hooks
         status == IF first THEN 200 ELSE r.status
         inRoute == r.handler < Len(layer.handlers)
     IN  /\ requests' =
              [requests EXCEPT ![i] =
                 [r EXCEPT
                    !.ran = Append(r.ran, [layer |-> r.layer, handler |-> r.handler,
                                           name |-> unit.name]),
                    !.hooks = hooks,
                    !.sends = r.sends + Len(unit.send),
                    !.status = status,
                    !.body = IF first THEN unit.send[1] ELSE r.body,
                    !.lastNext = unit.next,
                    !.lastSent = sent,
                    !.active = unit.next > 0,
                    !.layer = IF unit.next = 0 \/ inRoute THEN r.layer
                              ELSE NextLayer(app, r.layer + 1, r.method, r.path),
                    !.handler = IF unit.next = 0 THEN r.handler
                                ELSE IF inRoute THEN r.handler + 1 ELSE 1]]
         /\ console' = console \o UnitLines(i, unit.name, unit.log)
                         \o (IF first
                             THEN AccessLines(i, hooks, r.method, r.path, status)
                             ELSE <<>>)
  /\ UNCHANGED app

\* The stack is exhausted for request i: the final handler answers 404.
FinalHandler(i) ==
  LET r == requests[i] IN
  /\ r.active
  /\ r.layer > Len(app)
  /\ requests' =
       [requests EXCEPT ![i] =
          IF r.sends = 0
          THEN [r EXCEPT !.active = FALSE, !.status = 404, !.sends = 1,
                         !.body = "Cannot " \o r.method \o " " \o r.path]
          ELSE [r EXCEPT !.active = FALSE]]
  /\ console' = console \o (IF r.sends = 0
                            THEN AccessLines(i, r.hooks, r.method, r.path, 404)
                            ELSE <<>>)
  /\ UNCHANGED app

\* No unit holds request i any more and none answered it.
Stalled(r) == ~r.active /\ r.sends = 0 /\ ~r.closed

\* The client gives up on a stalled request and the connection closes.
Close(i) ==
  LET r == requests[i] IN
  /\ Stalled(r)
  /\ requests' = [requests EXCEPT ![i] = [r EXCEPT !.closed = TRUE]]
  /\ console' = console \o AccessLines(i, r.hooks, r.method, r.path, 0)
  /\ UNCHANGED app

\* The unit under the cursor of request i throws and nothing answers.
ThrowLeavesHanging(i) ==
  LET r == requests[i] IN
  /\ r.active
  /\ r.layer <= Len(app)
  /\ r.sends = 0
  /\ requests' = [requests EXCEPT ![i] = [r EXCEPT !.active = FALSE, !.thrown = TRUE]]
  /\ UNCHANGED <<app, console>>

\* The unit under the cursor of request i throws; the pipeline answers 500.
Throw(i) ==
  LET r == requests[i] IN
  /\ r.active
  /\ r.layer <= Len(app)
  /\ r.sends = 0
  /\ LET unit == app[r.layer].handlers[r.handler] IN
     requests' =
       [requests EXCEPT ![i] =
          [r EXCEPT
             !.ran = Append(r.ran, [layer |-> r.layer, handler |-> r.handler,
                                    name |-> unit.name]),
             !.active = FALSE, !.status = 500, !.sends = 1,
             !.body = "Internal Server Error",
             !.lastNext = 0, !.lastSent = FALSE, !.thrown = TRUE]]
  /\ console' = console \o AccessLines(i, r.hooks, r.method, r.path, 500)
  /\ UNCHANGED app

Received == 1..Len(requests)

Init ==
  /\ app \in Wirings
  /\ requests = <<>>
  /\ console = <<>>

Next ==
  \/ \E m \in Methods, p \in Paths : Receive(m, p)
  \/ \E i \in Received : Invoke(i)
  \/ \E i \in Received : FinalHandler(i)
  \/ \E i \in Received : Close(i)

Spec == Init /\ [][Next]_vars

\* The same server when a unit may throw.
NextFault ==
  \/ Next
  \/ \E i \in Received : Throw(i)

SpecFault == Init /\ [][NextFault]_vars

\* index.js exactly as wired, with every started handler run to its end.
InitIndex ==
  /\ app = indexRoutes
  /\ requests = <<>>
  /\ console = <<>>

NextIndex ==
  \/ \E m \in Methods, p \in Paths : Receive(m, p)
  \/ \E i \in Received : Invoke(i)
  \/ \E i \in Received : FinalHandler(i)

SpecIndex ==
  /\ InitIndex
  /\ [][NextIndex]_vars
  /\ \A i \in 1..MaxRequests :
       /\ WF_vars(i \in Received /\ Invoke(i))
       /\ WF_vars(i \in Received /\ FinalHandler(i))

----------------------------------------------------------------------------
(* Vocabulary of the properties.                                           *)

Answered(r) == r.sends >= 1
Settled(r) == ~r.active
Finished(r) == Answered(r) \/ r.closed

IsHi(r) == r.method = "GET" /\ r.path = "/hi"
IsBye(r) == r.method = "GET" /\ r.path = "/bye"
Routed(r) == IsHi(r) \/ IsBye(r)

\* Request i had the line text written to the console on its behalf.
Logged(i, text) ==
  \E k \in 1..Len(console) : console[k].req = i /\ console[k].text = text

\* The unit named name ran for request r.
Ran(r, name) == \E k \in 1..Len(r.ran) : r.ran[k].name = name

\* How often the unit at layer l ran for request r.
RunsOfLayer(r, l) == Cardinality({k \in 1..Len(r.ran) : r.ran[k].layer = l})

AccessLinesOf(i) ==
  Cardinality({k \in 1..Len(console) : console[k].req = i /\ console[k].by = "morgan"})

UseLayers == {l \in 1..Len(app) : app[l].kind = "use"}
RouteLayers == {l \in 1..Len(app) : app[l].kind = "route"}
HasLogger == \E l \in UseLayers : app[l].handlers[1].access

----------------------------------------------------------------------------
C2_NotFound ==
  \A i \in Received :
    LET r == requests[i] IN
    ~Routed(r) =>
      /\ Answered(r) =>
           /\ r.status = 404
           /\ r.body = "Cannot " \o r.method \o " " \o r.path
           /\ r.sends = 1
      /\ r.layer > Len(app) /\ Settled(r) => Answered(r)
      /\ app = indexRoutes /\ Settled(r) => Answered(r)

C2_Witness ==
  /\ app = indexRoutes
  /\ \E i, j \in Received :
       /\ requests[i].method = "GET" /\ requests[i].path = "/"
       /\ requests[i].status = 404 /\ requests[i].body = "Cannot GET /"
       /\ requests[j].method = "POST" /\ requests[j].path = "/hi"
       /\ requests[j].status = 404

\* C3: every handler unit, on each invocation, either writes a response or
\* invokes its continuation exactly once (never neither, never twice).
C3_UnitContract ==
  \A i \in Received :
    LET r == requests[i] IN
    r.ran # <<>> => /\ r.lastNext <= 1
                    /\ r.lastSent \/ r.lastNext = 1

\* C4: with myMiddleware registered globally, every request logs
\* "Hello, from my middleware" and is still answered: the route's body for
\* /hi and /bye, 404 otherwise.
C4_GlobalMiddlewareContinues ==
  app = appGlobal =>
    \A i \in Received :
      LET r == requests[i] IN
      Settled(r) =>
        /\ Logged(i, "Hello, from my middleware")
        /\ Answered(r)
        /\ IsHi(r) => r.status = 200 /\ r.body = "Hi"
        /\ IsBye(r) => r.status = 200 /\ r.body = "Bye"
        /\ ~Routed(r) => r.status = 404

\* C5: each globally registered unit runs at most once for a request, before
\* any route-bound unit, and exactly once for a request that is finished or
\* has reached a route or the end of the stack; the global logger writes at
\* most one access line for a request and exactly one for a finished one,
\* 404s included.
C5_GlobalUnitsOnce ==
  \A i \in Received :
    LET r == requests[i] IN
    /\ \A g \in UseLayers :
         /\ RunsOfLayer(r, g) <= 1
         /\ (Finished(r) \/ r.layer \notin UseLayers) => RunsOfLayer(r, g) = 1
    /\ \A a, b \in 1..Len(r.ran) :
         a < b => ~(r.ran[a].layer \in RouteLayers /\ r.ran[b].layer \in UseLayers)
    /\ AccessLinesOf(i) <= 1
    /\ HasLogger /\ Finished(r) => AccessLinesOf(i) = 1
    /\ ~HasLogger => AccessLinesOf(i) = 0

C5_Witness ==
  /\ HasLogger
  /\ \E i, j \in Received :
       /\ requests[i].status = 404 /\ AccessLinesOf(i) = 1
       /\ IsHi(requests[j]) /\ requests[j].status = 200 /\ AccessLinesOf(j) = 1
       /\ Len(requests[j].ran) = 2

\* C6: a unit bound to a route runs only for requests that match the route,
\* and a middleware bound in front of a route's handler runs for every
\* matching request whose dispatch has ended; myMiddleware bound to GET /bye
\* alone runs for GET /bye and for nothing else.
C6_RouteBoundOnly ==
  \A i \in Received :
    LET r == requests[i] IN
    /\ \A l \in RouteLayers :
         /\ RunsOfLayer(r, l) > 0 =>
              r.method = app[l].method /\ r.path = app[l].path
         /\ ( /\ Len(app[l].handlers) > 1
              /\ r.method = app[l].method /\ r.path = app[l].path
              /\ Settled(r) )
            => \E k \in 1..Len(r.ran) : r.ran[k].layer = l /\ r.ran[k].handler = 1
    /\ app = appPerRoute =>
         /\ Ran(r, "myMiddleware") => IsBye(r)
         /\ Logged(i, "Hello, from my middleware") => IsBye(r)
         /\ IsBye(r) /\ Settled(r) => Ran(r, "myMiddleware")

C6_Witness ==
  /\ app = appPerRoute
  /\ \E i, j \in Received :
       /\ IsBye(requests[i]) /\ Ran(requests[i], "myMiddleware")
       /\ Logged(i, "Hello, from my middleware")
       /\ ~IsBye(requests[j]) /\ Answered(requests[j])
       /\ ~Ran(requests[j], "myMiddleware")

C8_ThrowAnswered500 ==
  /\ [](\A i \in Received :
          LET r == requests[i] IN
          r.thrown => /\ r.status = 500 /\ r.sends = 1
                      /\ Settled(r) /\ ~Stalled(r))
  /\ [][\A i \in Received :
          requests[i].thrown =>
            /\ requests'[i].ran = requests[i].ran
            /\ requests'[i].sends = requests[i].sends
            /\ requests'[i].status = requests[i].status]_vars

C8_Witness ==
  \E i \in Received :
    /\ requests[i].thrown /\ requests[i].status = 500
    /\ IsBye(requests[i]) /\ Len(requests[i].ran) = 2
    /\ Len(app[requests[i].layer].handlers) = 2
    /\ requests[i].handler = 1

\* The positions of the effective sequence of a request: those of the
\* matching layers, in registration order.
RECURSIVE Effective(_, _, _)
Effective(l, method, path) ==
  IF l > Len(app) THEN <<>>
  ELSE (IF Matches(app[l], method, path)
        THEN [h \in 1..Len(app[l].handlers) |-> <<l, h>>]
        ELSE <<>>)
       \o Effective(l + 1, method, path)

\* C9: the units that ran for a request are a prefix of its effective
\* sequence (global units, then the matched route's units, then its terminal
\* handler, in registration order); a request is never answered twice; and
\* once a unit has returned without invoking its continuation, no further
\* unit runs for the request and no further response is written.
C9_OrderedDispatch ==
  /\ [](\A i \in Received :
          LET r == requests[i]
              seq == Effective(1, r.method, r.path)
          IN  /\ Len(r.ran) <= Len(seq)
              /\ \A k \in 1..Len(r.ran) :
                   <<r.ran[k].layer, r.ran[k].handler>> = seq[k]
              /\ r.sends <= 1)
  /\ [][\A i \in Received :
          Settled(requests[i]) =>
            /\ requests'[i].ran = requests[i].ran
            /\ requests'[i].sends = requests[i].sends
            /\ requests'[i].status = requests[i].status
            /\ requests'[i].body = requests[i].body]_vars

C9_Witness ==
  /\ app = appFactory
  /\ \E i, j \in Received :
       /\ IsBye(requests[i]) /\ Len(requests[i].ran) = 3
       /\ requests[i].body = "Bye" /\ Settled(requests[i])
       /\ requests[j].status = 404 /\ Len(requests[j].ran) = 1

====
